---- MODULE Spec2Model ----
(***************************************************************************)
(* Model of demo/setup.py, the packaging script of the dmenv demo package. *)
(*                                                                         *)
(* The script is a straight-line program: two imports, a guard on the      *)
(* interpreter's major version, and one call of setuptools' setup() with   *)
(* literal keyword arguments.  A run is modelled statement by statement;   *)
(* the environment of a run is the interpreter version (sys.version_info)  *)
(* and whether "from setuptools import setup, find_packages" can succeed.  *)
(*                                                                         *)
(* String literals that a reader of the metadata takes apart (the entry    *)
(* point, the classifiers, and the names they are compared with) are kept  *)
(* as sequences of characters, so that taking them apart is computed.      *)
(***************************************************************************)
EXTENDS Integers, Sequences, FiniteSets, TLC

\* Interpreter versions explored: major in 1..MaxMajor, minor in 0..MaxMinor.
MaxMajor == 4
MaxMinor == 7

Majors == 1..MaxMajor
Minors == 0..MaxMinor

(***************************************************************************)
(* Text helpers (Python str.find / partition / split / strip / int).       *)
(***************************************************************************)
RECURSIVE FindFrom(_, _, _)
FindFrom(s, sep, i) ==
    IF i + Len(sep) - 1 > Len(s) THEN 0
    ELSE IF SubSeq(s, i, i + Len(sep) - 1) = sep THEN i
    ELSE FindFrom(s, sep, i + 1)

Partition(s, sep) ==
    LET i == FindFrom(s, sep, 1)
    IN  IF i = 0 THEN << s, << >>, << >> >>
        ELSE << SubSeq(s, 1, i - 1), sep, SubSeq(s, i + Len(sep), Len(s)) >>

RECURSIVE Split(_, _)
Split(s, sep) ==
    LET i == FindFrom(s, sep, 1)
    IN  IF i = 0 THEN << s >>
        ELSE << SubSeq(s, 1, i - 1) >> \o Split(SubSeq(s, i + Len(sep), Len(s)), sep)

RECURSIVE LStrip(_)
LStrip(s) ==
    IF s # << >> /\ Head(s) = " " THEN LStrip(Tail(s)) ELSE s

RECURSIVE RStrip(_)
RStrip(s) ==
    IF s # << >> /\ s[Len(s)] = " " THEN RStrip(SubSeq(s, 1, Len(s) - 1)) ELSE s

Strip(s) == RStrip(LStrip(s))

DigitChars == << "0", "1", "2", "3", "4", "5", "6", "7", "8", "9" >>

IsDigit(c) == \E d \in 1..Len(DigitChars) : DigitChars[d] = c

DigitValue(c) == (CHOOSE d \in 1..Len(DigitChars) : DigitChars[d] = c) - 1

IsNumber(s) == s # << >> /\ \A i \in 1..Len(s) : IsDigit(s[i])

RECURSIVE ParseInt(_)
ParseInt(s) ==
    IF s = << >> THEN 0
    ELSE 10 * ParseInt(SubSeq(s, 1, Len(s) - 1)) + DigitValue(s[Len(s)])

(***************************************************************************)
(* The literals of the setup() call.                                       *)
(***************************************************************************)
UpgradeMessage == "Error: Please upgrade to Python3"

Name == <<"d","e","m","o">>

Version == <<"0",".","6",".","1">>

PyModules_OtherModule == << <<"d","m","e","n","v">> >>

PyModules == << <<"d","e","m","o">> >>

InstallRequires_WithPytest == << "path.py", "pytest" >>

InstallRequires == << "path.py" >>

ExtrasRequire_TwoGroups == [dev |-> << "pytest" >>, test |-> << "pytest" >>]

ExtrasRequire == [dev |-> << "pytest" >>]

Classifiers_WithPython2 ==
    << <<"P","r","o","g","r","a","m","m","i","n","g"," ","L","a","n","g","u","a","g","e"," ",":",":"," ","P","y","t","h","o","n"," ",":",":"," ","2",".","7">>,
       <<"P","r","o","g","r","a","m","m","i","n","g"," ","L","a","n","g","u","a","g","e"," ",":",":"," ","P","y","t","h","o","n"," ",":",":"," ","3",".","3">> >>

Classifiers ==
    << <<"P","r","o","g","r","a","m","m","i","n","g"," ","L","a","n","g","u","a","g","e"," ",":",":"," ","P","y","t","h","o","n"," ",":",":"," ","3",".","3">>,
       <<"P","r","o","g","r","a","m","m","i","n","g"," ","L","a","n","g","u","a","g","e"," ",":",":"," ","P","y","t","h","o","n"," ",":",":"," ","3",".","4">>,
       <<"P","r","o","g","r","a","m","m","i","n","g"," ","L","a","n","g","u","a","g","e"," ",":",":"," ","P","y","t","h","o","n"," ",":",":"," ","3",".","5">>,
       <<"P","r","o","g","r","a","m","m","i","n","g"," ","L","a","n","g","u","a","g","e"," ",":",":"," ","P","y","t","h","o","n"," ",":",":"," ","3",".","6">> >>

EntryPoints_WrongCallable ==
    [console_scripts |->
        << <<"d","e","m","o"," ","="," ","d","e","m","o",".","m","a","i","n">> >>]

EntryPoints ==
    [console_scripts |->
        << <<"d","e","m","o"," ","="," ","d","e","m","o",":","m","a","i","n">> >>]

\* The keyword arguments of the setup() call.
Metadata ==
    [ name                 |-> Name,
      version              |-> Version,
      description          |-> "dmenv demo",
      py_modules           |-> PyModules,
      include_package_data |-> TRUE,
      install_requires     |-> InstallRequires,
      extras_require       |-> ExtrasRequire,
      classifiers          |-> Classifiers,
      entry_points         |-> EntryPoints ]

(***************************************************************************)
(* How the literals are read.                                              *)
(***************************************************************************)
\* "name = module:attr": the command name, the module and the callable.
ParseEntryPoint(ep) ==
    LET p     == Partition(ep, << "=" >>)
        value == Strip(p[3])
        q     == Partition(value, << ":" >>)
    IN  [ name   |-> Strip(p[1]),
          module |-> Strip(q[1]),
          attr   |-> Strip(q[3]) ]

\* "Programming Language :: Python :: X.Y" names the interpreter version X.Y;
\* << >> for a classifier that names no interpreter version.
ClassifierVersion(c) ==
    LET parts == Split(c, << " ", ":", ":", " " >>)
        v     == IF Len(parts) = 3 THEN Split(parts[3], << "." >>) ELSE << >>
    IN  IF /\ Len(parts) = 3
           /\ parts[1] = <<"P","r","o","g","r","a","m","m","i","n","g"," ","L","a","n","g","u","a","g","e">>
           /\ parts[2] = <<"P","y","t","h","o","n">>
           /\ Len(v) = 2
           /\ IsNumber(v[1])
           /\ IsNumber(v[2])
        THEN << ParseInt(v[1]), ParseInt(v[2]) >>
        ELSE << >>

\* The interpreter versions the classifiers of md declare.
DeclaredVersions(md) ==
    { ClassifierVersion(md.classifiers[i]) : i \in DOMAIN md.classifiers } \ { << >> }

\* The distributions an install of md requires when it requests the extras
\* groups `requested`.
RequiredDists(md, requested) ==
    { md.install_requires[i] : i \in DOMAIN md.install_requires }
    \cup UNION { { md.extras_require[g][i] : i \in DOMAIN md.extras_require[g] } :
                 g \in requested \cap DOMAIN md.extras_require }

(***************************************************************************)
(* State of a run.                                                         *)
(***************************************************************************)
VARIABLES
    pc,                    \* next statement ("line1" .. "line8") or how the run ended
    major,                 \* sys.version_info.major of the interpreter of this run
    minor,                 \* sys.version_info.minor
    setuptools_importable, \* whether line 2 can import setup and find_packages
    namespace,             \* names bound in the module's globals
    stderr,                \* what the process wrote to standard error on exit
    exit_status,           \* process exit status; -1 while running
    setup_calls,           \* arguments of the setup() calls of this run, in order
    trace,                 \* source lines executed in this run, in order
    seen                   \* [major, args] of every setup() call of every run so far

vars == << pc, major, minor, setuptools_importable, namespace, stderr,
           exit_status, setup_calls, trace, seen >>

Terminal == { "ImportError", "AttributeError", "SystemExit", "done" }

\* Whether sys.version_info has the attribute major under interpreter ma.mi:
\* the named components of sys.version_info exist from Python 2.7 in the 2.x
\* line and from Python 3.1 in the 3.x line; before that it is a plain tuple
\* (and Python 1 has no sys.version_info), so the attribute access raises
\* AttributeError.
HasVersionInfoMajor(ma, mi) ==
    \/ ma = 2 /\ mi >= 7
    \/ ma = 3 /\ mi >= 1
    \/ ma > 3

\* A fresh interpreter process about to execute line 1.
Fresh(ma, mi, imp) ==
    /\ pc = "line1"
    /\ major = ma
    /\ minor = mi
    /\ setuptools_importable = imp
    /\ namespace = { }
    /\ stderr = ""
    /\ exit_status = -1
    /\ setup_calls = << >>
    /\ trace = << >>

Init ==
    /\ \E ma \in Majors, mi \in Minors, imp \in BOOLEAN : Fresh(ma, mi, imp)
    /\ seen = { }

\* line 1: import sys
ImportSys ==
    /\ pc = "line1"
    /\ namespace' = namespace \cup { "sys" }
    /\ trace' = Append(trace, 1)
    /\ pc' = "line2"
    /\ UNCHANGED << major, minor, setuptools_importable, stderr, exit_status,
                    setup_calls, seen >>

\* line 2 with the failed import swallowed: the run goes on to the guard.
ImportSetuptools_Swallowing ==
    /\ pc = "line2"
    /\ namespace' = IF setuptools_importable
                    THEN namespace \cup { "setup", "find_packages" }
                    ELSE namespace
    /\ trace' = Append(trace, 2)
    /\ pc' = "line4"
    /\ UNCHANGED << major, minor, setuptools_importable, stderr, exit_status,
                    setup_calls, seen >>

\* line 2: from setuptools import setup, find_packages
\* An import that fails raises ImportError; nothing catches it, so the
\* interpreter prints the traceback and exits with status 1.
ImportSetuptools ==
    /\ pc = "line2"
    /\ trace' = Append(trace, 2)
    /\ \/ /\ setuptools_importable
          /\ namespace' = namespace \cup { "setup", "find_packages" }
          /\ pc' = "line4"
          /\ UNCHANGED << stderr, exit_status >>
       \/ /\ ~setuptools_importable
          /\ pc' = "ImportError"
          /\ stderr' = "ImportError"
          /\ exit_status' = 1
          /\ UNCHANGED namespace
    /\ UNCHANGED << major, minor, setuptools_importable, setup_calls, seen >>

\* line 4 with the comparison off by one.
Guard_OffByOne ==
    /\ pc = "line4"
    /\ "sys" \in namespace
    /\ trace' = Append(trace, 4)
    /\ IF HasVersionInfoMajor(major, minor)
       THEN /\ pc' = IF major <= 3 THEN "line5" ELSE "line8"
            /\ UNCHANGED << stderr, exit_status >>
       ELSE /\ pc' = "AttributeError"
            /\ stderr' = "AttributeError"
            /\ exit_status' = 1
    /\ UNCHANGED << major, minor, setuptools_importable, namespace,
                    setup_calls, seen >>

\* line 4: if sys.version_info.major < 3:
\* Where sys.version_info has no attribute major the test itself raises
\* AttributeError; nothing catches it, so the process ends with status 1.
Guard ==
    /\ pc = "line4"
    /\ "sys" \in namespace
    /\ trace' = Append(trace, 4)
    /\ IF HasVersionInfoMajor(major, minor)
       THEN /\ pc' = IF major < 3 THEN "line5" ELSE "line8"
            /\ UNCHANGED << stderr, exit_status >>
       ELSE /\ pc' = "AttributeError"
            /\ stderr' = "AttributeError"
            /\ exit_status' = 1
    /\ UNCHANGED << major, minor, setuptools_importable, namespace,
                    setup_calls, seen >>

\* line 5: sys.exit("Error: Please upgrade to Python3")
\* SystemExit with a string argument: the string goes to stderr, status 1.
SysExit ==
    /\ pc = "line5"
    /\ trace' = Append(trace, 5)
    /\ stderr' = UpgradeMessage
    /\ exit_status' = 1
    /\ pc' = "SystemExit"
    /\ UNCHANGED << major, minor, setuptools_importable, namespace,
                    setup_calls, seen >>

\* lines 8-29 with a classifier list computed from the running interpreter.
CallSetup_VersionDependent ==
    /\ pc = "line8"
    /\ "setup" \in namespace
    /\ trace' = Append(trace, 8)
    /\ LET args == IF major > 3
                   THEN [Metadata EXCEPT !.classifiers = << >>]
                   ELSE Metadata
       IN  /\ setup_calls' = Append(setup_calls, args)
           /\ seen' = seen \cup { [major |-> major, args |-> args] }
    /\ exit_status' = 0
    /\ pc' = "done"
    /\ UNCHANGED << major, minor, setuptools_importable, namespace, stderr >>

\* lines 8-29: setup(name="demo", ...), the last statement of the script.
CallSetup ==
    /\ pc = "line8"
    /\ "setup" \in namespace
    /\ trace' = Append(trace, 8)
    /\ setup_calls' = Append(setup_calls, Metadata)
    /\ seen' = seen \cup { [major |-> major, args |-> Metadata] }
    /\ exit_status' = 0
    /\ pc' = "done"
    /\ UNCHANGED << major, minor, setuptools_importable, namespace, stderr >>

\* The script is run again, in a new process, under some interpreter.
StartRun ==
    /\ pc \in Terminal
    /\ \E ma \in Majors, mi \in Minors, imp \in BOOLEAN :
          /\ pc' = "line1"
          /\ major' = ma
          /\ minor' = mi
          /\ setuptools_importable' = imp
    /\ namespace' = { }
    /\ stderr' = ""
    /\ exit_status' = -1
    /\ setup_calls' = << >>
    /\ trace' = << >>
    /\ UNCHANGED seen

\* The statements of the script.
Step == ImportSys \/ ImportSetuptools \/ Guard \/ SysExit \/ CallSetup

Next ==
    \/ ImportSys
    \/ ImportSetuptools
    \/ Guard
    \/ SysExit
    \/ CallSetup
    \/ StartRun

Spec == Init /\ [][Next]_vars

\* The interpreter executes a started script statement by statement until the
\* process ends.
FairSpec == Spec /\ WF_vars(Step)

TypeOK ==
    /\ pc \in { "line1", "line2", "line4", "line5", "line8" } \cup Terminal
    /\ stderr \in { "", "ImportError", "AttributeError", UpgradeMessage }
    /\ major \in Majors
    /\ minor \in Minors
    /\ setuptools_importable \in BOOLEAN
    /\ namespace \subseteq { "sys", "setup", "find_packages" }
    /\ exit_status \in { -1, 0, 1 }
    /\ Len(trace) <= 4

(***************************************************************************)
(* Properties.                                                             *)
(***************************************************************************)
\* The source line n has been executed in the current run.
Executed(n) == \E i \in DOMAIN trace : trace[i] = n

\* C1: in every run under an interpreter of major version below 3 the process
\* ends with the upgrade message "Error: Please upgrade to Python3" as its
\* error outcome, and setup() is never reached in that run.
C1_OldInterpreterGetsUpgradeMessage ==
    major < 3 =>
        /\ setup_calls = << >>
        /\ ~Executed(8)
        /\ pc \in Terminal =>
              /\ pc = "SystemExit"
              /\ stderr = UpgradeMessage
              /\ exit_status = 1

\* C2 as stated: every run under an interpreter of major version 3 or greater
\* passes the guard without exiting and ends in the setup() call.
C2_EveryNewInterpreterRunReachesSetup ==
    (major >= 3 /\ pc \in Terminal) =>
        /\ pc = "done"
        /\ Len(setup_calls) = 1
        /\ ~Executed(5)

\* C2 amended: under an interpreter of major version 3 or greater the guard
\* never exits with the upgrade message.  The run proceeds to the setup() call
\* exactly when the import of setuptools on line 2 succeeds and
\* sys.version_info has the attribute major (Python 3.1 or later); otherwise it
\* ends with the ImportError of line 2, before the guard, or with the
\* AttributeError of line 4 (Python 3.0).
C2_NewInterpreterReachesSetupIfImportSucceeds ==
    /\ [](major >= 3 => pc \notin { "line5", "SystemExit" } /\ ~Executed(5))
    /\ []((major >= 3 /\ pc \in Terminal) =>
              /\ pc = "done" <=>
                    (setuptools_importable /\ HasVersionInfoMajor(major, minor))
              /\ pc = "done" => Len(setup_calls) = 1
              /\ pc = "ImportError" <=> ~setuptools_importable
              /\ pc = "ImportError" => ~Executed(4))
    /\ (pc = "line1" /\ major >= 3 /\ setuptools_importable
                     /\ HasVersionInfoMajor(major, minor))
          ~> (pc = "done" /\ major >= 3 /\ Len(setup_calls) = 1)

\* A run under Python 3 or later that passed the guard and called setup().
C2_Witness ==
    /\ pc = "done"
    /\ major >= 3
    /\ trace = << 1, 2, 4, 8 >>
    /\ exit_status = 0

\* C3: the metadata passed to setup() declares exactly one runtime dependency,
\* "path.py", exactly one dependency in the "dev" extra, "pytest", and "dev"
\* is the only extras group.
C3_OneRuntimeAndOneDevDependency ==
    \A i \in DOMAIN setup_calls :
        LET md == setup_calls[i]
        IN  /\ Len(md.install_requires) = 1
            /\ md.install_requires[1] = "path.py"
            /\ DOMAIN md.extras_require = { "dev" }
            /\ Len(md.extras_require["dev"]) = 1
            /\ md.extras_require["dev"][1] = "pytest"

\* setup() has received the dependency declarations.
C3_Witness ==
    /\ pc = "done"
    /\ Len(setup_calls) = 1
    /\ Len(setup_calls[1].install_requires) + Len(setup_calls[1].extras_require["dev"]) = 2

\* C4: the metadata registers exactly one console command: console_scripts has
\* exactly one element, whose command name is "demo" and which resolves to the
\* callable main of the module demo.
C4_OneConsoleCommandDemo ==
    \A i \in DOMAIN setup_calls :
        LET md == setup_calls[i]
        IN  /\ DOMAIN md.entry_points = { "console_scripts" }
            /\ Len(md.entry_points["console_scripts"]) = 1
            /\ ParseEntryPoint(md.entry_points["console_scripts"][1]) =
                  [ name   |-> <<"d","e","m","o">>,
                    module |-> <<"d","e","m","o">>,
                    attr   |-> <<"m","a","i","n">> ]

\* setup() has received an entry point whose text splits into a command name
\* and a module:callable reference.
C4_Witness ==
    /\ pc = "done"
    /\ Len(setup_calls) = 1
    /\ LET ep == setup_calls[1].entry_points["console_scripts"][1]
       IN  /\ FindFrom(ep, << "=" >>, 1) > 0
           /\ ParseEntryPoint(ep).attr # << >>

\* C5: the metadata declares the name "demo" and the version "0.6.1", and the
\* one module listed in py_modules is the module the console entry point
\* refers to.
C5_IdentityAndModuleAgree ==
    \A i \in DOMAIN setup_calls :
        LET md == setup_calls[i]
        IN  /\ md.name = <<"d","e","m","o">>
            /\ md.version = <<"0",".","6",".","1">>
            /\ Len(md.py_modules) = 1
            /\ \A k \in DOMAIN md.entry_points["console_scripts"] :
                  ParseEntryPoint(md.entry_points["console_scripts"][k]).module
                      = md.py_modules[1]

\* setup() has received a module list and an entry point naming a module.
C5_Witness ==
    /\ pc = "done"
    /\ Len(setup_calls) = 1
    /\ setup_calls[1].py_modules # << >>
    /\ ParseEntryPoint(setup_calls[1].entry_points["console_scripts"][1]).module # << >>

\* C6: every interpreter-version classifier of the metadata names a 3.x
\* version, and no interpreter of major version 2 is both accepted by the
\* version guard and declared compatible.
C6_OnlyPython3Declared ==
    /\ \A i \in DOMAIN setup_calls :
          /\ DeclaredVersions(setup_calls[i]) # { }
          /\ \A v \in DeclaredVersions(setup_calls[i]) : v[1] = 3
    /\ ~ ( /\ major = 2
           /\ Executed(4)
           /\ pc \in { "line8", "done" }
           /\ << major, minor >> \in DeclaredVersions(Metadata) )

\* An interpreter that the guard accepted and that the classifiers passed to
\* setup() declare compatible.
C6_Witness ==
    /\ pc = "done"
    /\ Len(setup_calls) = 1
    /\ << major, minor >> \in DeclaredVersions(setup_calls[1])

\* C7: the dependency of the "dev" extra, "pytest", is not in the runtime
\* dependency list, so an install that does not request the "dev" extra
\* requires only the runtime dependency.
C7_DevDependencyOnlyOnRequest ==
    \A i \in DOMAIN setup_calls :
        LET md == setup_calls[i]
        IN  /\ \A k \in DOMAIN md.extras_require["dev"] :
                  /\ md.extras_require["dev"][k] \notin RequiredDists(md, { })
                  /\ md.extras_require["dev"][k] \in RequiredDists(md, { "dev" })
            /\ "pytest" \notin RequiredDists(md, { })
            /\ RequiredDists(md, { }) = { "path.py" }

\* setup() has received metadata for which requesting "dev" adds a
\* distribution.
C7_Witness ==
    /\ pc = "done"
    /\ Len(setup_calls) = 1
    /\ RequiredDists(setup_calls[1], { "dev" }) \ RequiredDists(setup_calls[1], { })
          = { "pytest" }

\* C8 as stated: every run either exits at the guard with the upgrade message
\* or reaches setup(); the script has no other point of failure.
C8_GuardIsTheOnlyFailurePath ==
    pc \in Terminal =>
        \/ pc = "SystemExit" /\ stderr = UpgradeMessage /\ Executed(5)
        \/ pc = "done" /\ Executed(8)

\* C8 amended: the script has three failure paths: the import of setuptools
\* on line 2 (ImportError), the evaluation of sys.version_info.major on line 4
\* (AttributeError where the attribute does not exist) and the exit of the
\* version guard.  Every run ends in one of these or reaches setup(); no line
\* is executed twice (no retry) and a run that failed executes nothing after
\* the failing line (no recovery).
C8_ImportAndGuardAreTheOnlyFailurePaths ==
    /\ pc \in Terminal =>
          \/ /\ pc = "ImportError"
             /\ ~setuptools_importable
             /\ trace = << 1, 2 >>
             /\ exit_status = 1
             /\ setup_calls = << >>
          \/ /\ pc = "AttributeError"
             /\ ~HasVersionInfoMajor(major, minor)
             /\ trace = << 1, 2, 4 >>
             /\ exit_status = 1
             /\ setup_calls = << >>
          \/ /\ pc = "SystemExit"
             /\ stderr = UpgradeMessage
             /\ major < 3
             /\ trace = << 1, 2, 4, 5 >>
             /\ exit_status = 1
             /\ setup_calls = << >>
          \/ /\ pc = "done"
             /\ major >= 3
             /\ trace = << 1, 2, 4, 8 >>
             /\ exit_status = 0
             /\ Len(setup_calls) = 1
    /\ \A i, j \in DOMAIN trace : i < j => trace[i] < trace[j]
    /\ ~setuptools_importable => pc \in { "line1", "line2", "ImportError" }
    /\ ~HasVersionInfoMajor(major, minor) =>
          pc \in { "line1", "line2", "line4", "ImportError", "AttributeError" }

\* A run that failed at the import of line 2, under an interpreter the guard
\* would have accepted.
C8_Witness ==
    /\ pc = "ImportError"
    /\ major >= 3
    /\ trace = << 1, 2 >>
    /\ stderr = "ImportError"

\* C9: the version guard is the first step of the script that can end the
\* run: no step that can fail, in particular the import of setuptools on
\* line 2, is executed before the guard is evaluated, so no run ends before
\* the guard has been evaluated.
C9_GuardIsFirstStepThatCanEndTheRun ==
    pc \in Terminal => Executed(4)

\* C10: in a run setup() is called at most once and only after the guard has
\* been evaluated and passed, and the metadata it receives is the same under
\* every interpreter of major version 3 or greater.
C10_SetupOnceAfterGuardSameMetadata ==
    /\ Len(setup_calls) <= 1
    /\ setup_calls # << >> =>
          /\ major >= 3
          /\ \E i, j \in DOMAIN trace : i < j /\ trace[i] = 4 /\ trace[j] = 8
          /\ ~Executed(5)
    /\ \A a \in seen : a.major >= 3
    /\ \A a, b \in seen : a.args = b.args

\* setup() has been called in runs under two different major versions.
C10_Witness ==
    /\ pc = "done"
    /\ Len(setup_calls) = 1
    /\ \E a, b \in seen : a.major # b.major

====
